---- MODULE Spec2Model ----
(***************************************************************************)
(* PaperPulse: one invocation of AIReporter.run_report (src/main.py) with  *)
(* the two scrapers, the summarizer, the renderer and the mail step, over  *)
(* the per-day JSON document store under ./materials.                      *)
(***************************************************************************)
EXTENDS Integers, Sequences, FiniteSets, TLC

(* ------------------------------ bounds -------------------------------- *)
\* longest paper listing the listing page returns
MaxPapers == 2
\* longest list of repositories the trending page yields
MaxRepos == 1
\* entries of a listing page given to a fetcher called alone
MaxListing == 3
\* pieces of text of an email template
MaxTemplate == 5
\* daily triggers of the scheduler
MaxRuns == 3

(* --------------------------- program constants ------------------------ *)
\* the literal returned by the summarizer when a completion request fails
SENTINEL == "Summary generation failed."
\* Python None / JSON null
Null == "<None>"
\* str(None) inside an f-string
NoneText == "None"
NA == "N/A"

\* datetime.now().strftime("%Y%m%d"): the day the process runs on.  The
\* scheduler starts a run at 21:00 and kills it after 7200 s, so a run does
\* not cross midnight.
Today == "today"
\* the keys AIReporter may be constructed with (time_stamp=None means Today;
\* __main__ passes a literal date)
Dates == {"20251014", Today}

(* ------------------------------ documents ----------------------------- *)
GH == "gh_trendings"
HF == "huggingface_papers"
L2 == "L2 Summary"
L1 == "L1 Summary"
Sections == {GH, HF, L2, L1}

\* json.dump({}, file)
EmptyDoc == [s \in {} |-> <<>>]

\* states of one file of the store
Absent == [kind |-> "absent", data |-> EmptyDoc]
Corrupt == [kind |-> "corrupt", data |-> EmptyDoc]
DocFile(d) == [kind |-> "doc", data |-> d]

\* os.path.exists
exists(f) == f.kind # "absent"

\* a write that dumps only the new section instead of the merged object
SetSection_only(d, name, v) == [k \in {name} |-> v]

\* data[name] = v on a dict
SetSection(d, name, v) ==
    [k \in (DOMAIN d) \cup {name} |-> IF k = name THEN v ELSE d[k]]

\* dict.get(name, [])
Get(d, name) == IF name \in DOMAIN d THEN d[name] ELSE <<>>

\* with open(path, "w") as file: json.dump(data, file): the write goes
\* through, open raises before it truncated the file, or json.dump raises
\* after open truncated it
WriteOutcomes == {"ok", "open_failed", "dump_failed"}

\* the file after such a write of the document new over the file old
write_file(old, new, io) ==
    CASE io = "ok" -> DocFile(new)
      [] io = "open_failed" -> old
      [] io = "dump_failed" -> Corrupt


(* --------------------------- paper fetcher ---------------------------- *)
\* one <h3> container of the listing page: whether its <a> tag parses, and
\* what the arXiv lookup of its id does
PaperEntryKinds ==
    [wellformed : BOOLEAN, lookup : {"found", "no_result", "exception"}]

\* ArxivScraper.get_paper_details
get_paper_details(lookup) ==
    IF lookup = "found"
    THEN [Summary |-> "abstract", PDF_Link |-> "pdf"]
    ELSE [Summary |-> NA, PDF_Link |-> NA]

\* a loop that also skips the container whose lookup failed
RECURSIVE parse_from_dropping(_, _)
parse_from_dropping(listing, i) ==
    IF i > Len(listing) THEN <<>>
    ELSE LET e == listing[i]
             d == get_paper_details(e.lookup)
             rest == parse_from_dropping(listing, i + 1)
         IN IF e.wellformed /\ e.lookup = "found"
            THEN <<[Title |-> <<"paper", i>>, Summary |-> d.Summary,
                    PDF_Link |-> d.PDF_Link]>> \o rest
            ELSE rest

\* HuggingFacePaperScraper._parse_papers: the loop over the containers; a
\* container whose parsing raises is skipped (continue)
RECURSIVE parse_from(_, _)
parse_from(listing, i) ==
    IF i > Len(listing) THEN <<>>
    ELSE LET e == listing[i]
             d == get_paper_details(e.lookup)
             rest == parse_from(listing, i + 1)
         IN IF e.wellformed
            THEN <<[Title |-> <<"paper", i>>, Summary |-> d.Summary,
                    PDF_Link |-> d.PDF_Link]>> \o rest
            ELSE rest

parse_papers(listing) == parse_from(listing, 1)

\* the read of the existing file in _save / _save_to_json: a file that is
\* missing or is not valid JSON gives an empty dict
load_or_empty(f) == IF f.kind = "doc" THEN f.data ELSE EmptyDoc

\* a _save without the `if not new_data: return` of lines 177-179
save_papers_always(f, new_data, io) ==
    write_file(f, SetSection(load_or_empty(f), HF, new_data), io)

\* HuggingFacePaperScraper._save: nothing is written for an empty list
save_papers(f, new_data, io) ==
    IF new_data = <<>> THEN f
    ELSE write_file(f, SetSection(load_or_empty(f), HF, new_data), io)

(* ------------------------- repository fetcher ------------------------- *)
\* the slice repo_list[:10]
TopN == 10

\* one <article> of the trending page: whether it has a title link, and
\* what fetching its README does
RepoEntryKinds ==
    [link : BOOLEAN, readme : {"ok", "no_readme", "repo_error"}]

\* GithubTrendingScraper._get_repo_details
get_repo_details(readme) ==
    CASE readme = "ok" -> "readme text"
      [] readme = "no_readme" -> "README not found."
      [] OTHER -> "An error occurred while fetching README"

Min(a, b) == IF a < b THEN a ELSE b

\* the loop over the whole of repo_list, without the slice
RECURSIVE repos_from_unsliced(_, _)
repos_from_unsliced(listing, j) ==
    IF j > Len(listing) THEN <<>>
    ELSE LET e == listing[j]
             rest == repos_from_unsliced(listing, j + 1)
         IN IF e.link
            THEN <<[url |-> <<"repo", j>>, language |-> "lang",
                    description |-> "desc",
                    readme_summary |-> get_repo_details(e.readme)]>> \o rest
            ELSE rest

\* GithubTrendingScraper._get_trending_repos, the loop over repo_list[:10]
RECURSIVE repos_from(_, _)
repos_from(listing, j) ==
    IF j > Min(Len(listing), TopN) THEN <<>>
    ELSE LET e == listing[j]
             rest == repos_from(listing, j + 1)
         IN IF e.link
            THEN <<[url |-> <<"repo", j>>, language |-> "lang",
                    description |-> "desc",
                    readme_summary |-> get_repo_details(e.readme)]>> \o rest
            ELSE rest

get_trending_repos(listing) == repos_from(listing, 1)

(* ------------------------------ summarizer ---------------------------- *)
\* what one chat.completions.create call can do: return text, raise, return
\* a response without choices, return a choice whose content is None
Completions == {"text", "error", "no_choices", "null_content"}

\* a call without the except clause's fallback to the sentinel
completion_answer_unhandled(c) ==
    IF c = "text" THEN "summary text" ELSE Null

\* the try block of _get_summary_from_anthropic and of generate_L1_report:
\* response.choices[0].message.content, or the sentinel on any exception
completion_answer(c) ==
    CASE c = "text" -> "summary text"
      [] c = "null_content" -> Null
      [] OTHER -> SENTINEL

\* f"{title}\n\n{summary}": an f-string renders None as the text None
fstring(x) == IF x = Null THEN NoneText ELSE x
report_entry(label, summary) == <<label, fstring(summary)>>

\* the two loops of generate_full_report swapped: repos before papers
item_labels_repos_first(papers, repos) ==
    [i \in 1..(Len(papers) + Len(repos)) |->
        IF i <= Len(repos) THEN repos[i].url
        ELSE papers[i - Len(repos)].Title]

\* the label and the order of the items generate_full_report walks through:
\* every paper by Title, then every repo by url
item_labels(papers, repos) ==
    [i \in 1..(Len(papers) + Len(repos)) |->
        IF i <= Len(papers) THEN papers[i].Title
        ELSE repos[i - Len(papers)].url]

(* ------------------------------- renderer ----------------------------- *)
NoBody == EmptyDoc
NoFile == [kind |-> "absent", body |-> NoBody]
\* an output file left by an earlier run
StaleFile == [kind |-> "stale", body |-> NoBody]
Written(b) == [kind |-> "written", body |-> b]

\* the Markdown text _finish_report writes (lines 105-127)
markdown_body(d) ==
    [L1 |-> IF L1 \in DOMAIN d THEN d[L1] ELSE Null, L2 |-> Get(d, L2), gh |-> Get(d, GH), hf |-> Get(d, HF)]

\* generate_article_html raises after the template was read: a required key
\* is missing, 'L2 Summary' is shorter than the paper list, or the rollup is
\* None (str.replace needs a str)
article_html_raises(d) ==
    \/ HF \notin DOMAIN d
    \/ L2 \notin DOMAIN d
    \/ L1 \notin DOMAIN d
    \/ Len(d[L2]) < Len(d[HF])
    \/ d[L1] = Null

\* blocks paired with the last entries of 'L2 Summary' instead of the first
article_blocks_unaligned(d) ==
    [i \in 1..Len(d[HF]) |->
        [title |-> d[HF][i].Title, abstract_en |-> d[HF][i].Summary,
         summary_cn |-> d[L2][i + Len(d[L2]) - Len(d[HF])],
         link |-> d[HF][i].PDF_Link]]

\* one simple_format block per paper, paired with l2_summary_data[index]
article_blocks(d) ==
    [i \in 1..Len(d[HF]) |->
        [title |-> d[HF][i].Title, abstract_en |-> d[HF][i].Summary,
         summary_cn |-> d[L2][i], link |-> d[HF][i].PDF_Link]]

html_body(d) == [tldr |-> d[L1], articles |-> article_blocks(d)]

\* _finish_report with report_data.get("L1 Summary") in place of the
\* subscript of line 102: a missing rollup no longer stops the render
finish_outcome_lenient(f, tmpl) ==
    CASE f.kind = "absent" -> "false"
      [] f.kind = "corrupt" -> "raise_early"
      [] f.kind = "doc" /\ tmpl = "missing" -> "true_nohtml"
      [] f.kind = "doc" /\ tmpl # "missing" /\ article_html_raises(f.data) ->
            "raise_late"
      [] OTHER -> "true"

\* how _finish_report ends for the file it opens and the template state:
\*   "false"        the JSON file does not exist (return False)
\*   "raise_early"  json.load or report_data["L1 Summary"] raises
\*   "raise_late"   the Markdown is written, generate_article_html raises
\*   "true_nohtml"  the template is missing: generate_article_html returns
\*                  without writing, _finish_report returns True
\*   "true"         both files written
finish_outcome(f, tmpl) ==
    CASE f.kind = "absent" -> "false"
      [] f.kind = "corrupt" -> "raise_early"
      [] f.kind = "doc" /\ L1 \notin DOMAIN f.data -> "raise_early"
      [] f.kind = "doc" /\ L1 \in DOMAIN f.data /\ tmpl = "missing" -> "true_nohtml"
      [] f.kind = "doc" /\ L1 \in DOMAIN f.data /\ tmpl # "missing"
            /\ article_html_raises(f.data) -> "raise_late"
      [] OTHER -> "true"

(* ------------------------------- state -------------------------------- *)
VARIABLES
    time_stamp,    \* AIReporter.time_stamp
    template,      \* ./mail/email_template.html as generate_article_html finds it
    files,         \* materials/<date>.json, by date
    files0,        \* the store as it was when run_report was called
    md,            \* materials/<time_stamp>.md
    html,          \* materials/<time_stamp>.html
    pc,            \* where the main thread is in run_report
    wpc,           \* where the executor's worker is in gh_scraper.run
    timed_out,     \* future.result raised TimeoutError
    paper_status,  \* how paper_scraper.run ended
    gh_status,     \* how gh_scraper.run ended
    w_repos,       \* worker: repos returned by _get_trending_repos
    w_data,        \* worker: output_data read in _save_to_json
    s_papers,      \* summarizer: papers of the loaded data
    s_repos,       \* summarizer: repos of the loaded data
    reports,       \* summarizer: reports built so far
    calls,         \* summarizer: what each item-level completion request did
    rollups,       \* summarizer: number of rollup completion requests
    L1_call,       \* summarizer: what the rollup completion request did
    s_data,        \* summarizer: data read in save_L2_summary/save_L1_summary
    L1_summary,    \* summarizer: self.L1_summary
    summ,          \* how AISummarizer.run ended
    render,        \* how _finish_report ended
    mail,          \* how _send_mail ended
    result,        \* how run_report ended
    sched,         \* run.py: the scheduler loop and its child process
    unit           \* the last call of a single method, with what it was
                   \* given and what it gave (StoreSpec, FetchSpec)

vars == <<time_stamp, template, files, files0, md, html, pc, wpc, timed_out,
          paper_status, gh_status, w_repos, w_data, s_papers, s_repos,
          reports, calls, rollups, L1_call, s_data, L1_summary, summ, render,
          mail, result, sched, unit>>

summ_vars == <<s_papers, s_repos, reports, calls, rollups, L1_call, s_data,
               L1_summary, summ>>
out_vars == <<md, html, render, mail, result>>
worker_vars == <<wpc, gh_status, w_repos, w_data>>
env_vars == <<time_stamp, template, files0, sched, unit>>
\* everything but the store and the record of the last single call
run_vars_but_sched ==
    <<time_stamp, template, files0, md, html, pc, wpc, timed_out,
      paper_status, gh_status, w_repos, w_data, summ_vars, render, mail,
      result>>
run_vars == <<run_vars_but_sched, sched>>

(* ------------------------------- inputs ------------------------------- *)
SeqsUpTo(S, n) == UNION {[1..k -> S] : k \in 0..n}

\* the listing pages the fetchers of a pipeline run are given: entries that
\* parse and whose lookup or README fetch succeeds (the other kinds of entry
\* are given to the fetchers in FetchSpec)
PaperListings ==
    SeqsUpTo({e \in PaperEntryKinds : e.wellformed /\ e.lookup = "found"},
             MaxPapers)
RepoListings ==
    SeqsUpTo({e \in RepoEntryKinds : e.link /\ e.readme = "ok"}, MaxRepos)

\* the states of ./mail/email_template.html
Templates == {"missing", "ok"}

\* documents an earlier run of the same day (finished, or killed by the
\* scheduler's timeout between two stages) has left in the store
OnePaper == parse_papers(<<[wellformed |-> TRUE, lookup |-> "found"]>>)
OneReport == <<report_entry(OnePaper[1].Title, "summary text")>>
HalfDoc == SetSection(SetSection(EmptyDoc, HF, OnePaper), L2, OneReport)
CompleteDoc == SetSection(HalfDoc, L1, "summary text")
InitFiles == {Absent, Corrupt, DocFile(HalfDoc), DocFile(CompleteDoc)}

(* -------------------------------- Init -------------------------------- *)
\* no method has been called on its own
NoCall == [op |-> "none"]

\* main.py was started by hand, not by run.py
NoScheduler == [at |-> "off"]

\* AIReporter.__init__ has returned and run_report has not been called
NotStarted ==
    /\ pc = "start"
    /\ wpc = "idle"
    /\ timed_out = FALSE
    /\ paper_status = "none"
    /\ gh_status = "none"
    /\ w_repos = <<>>
    /\ w_data = EmptyDoc
    /\ s_papers = <<>>
    /\ s_repos = <<>>
    /\ reports = <<>>
    /\ calls = <<>>
    /\ rollups = 0
    /\ L1_call = "none"
    /\ s_data = EmptyDoc
    /\ L1_summary = Null
    /\ summ = "none"
    /\ render = "none"
    /\ mail = "none"
    /\ result = "running"

Init ==
    /\ time_stamp \in Dates
    /\ template = "unread"
    /\ files \in [Dates -> InitFiles]
    /\ \A d \in Dates \ {time_stamp, Today} : files[d] = Absent
    /\ files0 = files
    \* the outputs of an earlier run exist only beside its JSON file
    /\ \E o \in {NoFile, StaleFile} :
         /\ o = StaleFile => files[time_stamp].kind = "doc"
         /\ md = o
         /\ html = o
    /\ unit = NoCall
    /\ sched = NoScheduler
    /\ NotStarted

(* ----------------------- AIReporter.run_report ------------------------ *)
\* a run_report without the os.path.exists test: it always starts from an
\* empty document and crawls
run_report_always_crawls ==
    /\ pc = "start"
    /\ files' = [files EXCEPT ![time_stamp] = DocFile(EmptyDoc)]
    /\ pc' = "papers"
    /\ UNCHANGED <<env_vars, worker_vars, summ_vars, out_vars, timed_out,
                   paper_status>>

\* lines 161-170: create the empty document and go crawling, unless the
\* file of time_stamp exists
run_report ==
    /\ pc = "start"
    /\ IF ~exists(files[time_stamp])
       THEN /\ files' = [files EXCEPT ![time_stamp] = DocFile(EmptyDoc)]
            /\ pc' = "papers"
       ELSE /\ pc' = "render"
            /\ UNCHANGED files
    /\ UNCHANGED <<env_vars, worker_vars, summ_vars, out_vars, timed_out,
                   paper_status>>

(* ------------------------ AIReporter._crawling ------------------------ *)
\* lines 60-64: paper_scraper.run() inside try/except Exception.  The page
\* fetch raises something other than a RequestException, returns None, or
\* returns a listing, which is parsed and saved to today's file.
\* on_raise: where run_report is after the scraper raised
paper_run_step(on_raise) ==
    /\ pc = "papers"
    /\ \/ /\ paper_status' = "raised"
          /\ pc' = on_raise.pc
          /\ result' = on_raise.result
          /\ UNCHANGED files
       \/ /\ paper_status' = "no_page"
          /\ pc' = "submit"
          /\ UNCHANGED <<files, result>>
       \/ \E listing \in PaperListings :
            \E io \in WriteOutcomes :
            LET papers == parse_papers(listing) IN
            /\ files' = [files EXCEPT ![Today] = save_papers(@, papers, io)]
            /\ paper_status' = IF papers = <<>> THEN "empty"
                               ELSE IF io = "ok" THEN "saved"
                               ELSE "save_failed"
            /\ pc' = "submit"
            /\ UNCHANGED result
    /\ UNCHANGED <<env_vars, worker_vars, summ_vars, md, html, render, mail,
                   timed_out>>

\* the scraper called without the try/except of lines 60-64
paper_run_uncaught == paper_run_step([pc |-> "end", result |-> "raised"])

\* except Exception (line 63): print, and go on with the GitHub scraper
paper_run == paper_run_step([pc |-> "submit", result |-> "running"])

\* line 71: executor.submit(self.gh_scraper.run)
submit ==
    /\ pc = "submit"
    /\ wpc' = "fetch"
    /\ pc' = "wait"
    /\ UNCHANGED <<env_vars, files, gh_status, w_repos, w_data, summ_vars,
                   out_vars, timed_out, paper_status>>

\* line 72: future.result returns, or re-raises the worker's exception
\* (caught at line 76), because the worker is done
future_result ==
    /\ pc = "wait"
    /\ wpc = "done"
    /\ pc' = "shutdown"
    /\ UNCHANGED <<env_vars, files, worker_vars, summ_vars, out_vars,
                   timed_out, paper_status>>

\* a timeout after which _crawling returns at once and leaves the worker
\* behind
future_timeout_abandons ==
    /\ pc = "wait"
    /\ wpc # "done"
    /\ timed_out' = TRUE
    /\ pc' = "load"
    /\ UNCHANGED <<env_vars, files, worker_vars, summ_vars, out_vars,
                   paper_status>>

\* lines 72-75: the worker is still running after TIMEOUT_SECONDS
future_timeout ==
    /\ pc = "wait"
    /\ wpc # "done"
    /\ timed_out' = TRUE
    /\ pc' = "shutdown"
    /\ UNCHANGED <<env_vars, files, worker_vars, summ_vars, out_vars,
                   paper_status>>

\* an executor left with shutdown(wait=False): it returns at once
shutdown_nowait(w) == TRUE

\* line 70: leaving the with block calls executor.shutdown(wait=True), which
\* returns when the worker has finished its task
shutdown_returns(w) == w = "done"

executor_shutdown ==
    /\ pc = "shutdown"
    /\ shutdown_returns(wpc)
    /\ pc' = "load"
    /\ UNCHANGED <<env_vars, files, worker_vars, summ_vars, out_vars,
                   timed_out, paper_status>>

(* --------------------- GithubTrendingScraper.run ---------------------- *)
\* line 138: _get_trending_repos raises (a tag lookup on None), returns None
\* (status code, RequestException) or returns the repos of the listing
worker_fetch ==
    /\ wpc = "fetch"
    /\ \/ /\ gh_status' = "raised"
          /\ wpc' = "done"
          /\ UNCHANGED w_repos
       \/ /\ gh_status' = "no_page"
          /\ wpc' = "done"
          /\ UNCHANGED w_repos
       \/ \E listing \in RepoListings :
            LET repos == get_trending_repos(listing) IN
            IF repos = <<>>
            THEN /\ gh_status' = "empty"
                 /\ wpc' = "done"
                 /\ UNCHANGED w_repos
            ELSE /\ w_repos' = repos
                 /\ wpc' = "save_read"
                 /\ UNCHANGED gh_status
    /\ UNCHANGED <<env_vars, files, w_data, pc, summ_vars, out_vars,
                   timed_out, paper_status>>

\* _save_to_json lines 115-122: read today's file
worker_save_read ==
    /\ wpc = "save_read"
    /\ w_data' = load_or_empty(files[Today])
    /\ wpc' = "save_write"
    /\ UNCHANGED <<env_vars, files, gh_status, w_repos, pc, summ_vars,
                   out_vars, timed_out, paper_status>>

\* _save_to_json lines 125-130: set the key and write the whole object
worker_save_write ==
    /\ wpc = "save_write"
    /\ \E io \in WriteOutcomes :
         /\ files' =
               [files EXCEPT
                  ![Today] = write_file(@, SetSection(w_data, GH, w_repos), io)]
         /\ gh_status' = IF io = "ok" THEN "saved" ELSE "save_failed"
    /\ wpc' = "done"
    /\ UNCHANGED <<env_vars, w_repos, w_data, pc, summ_vars, out_vars,
                   timed_out, paper_status>>

(* --------------------------- AISummarizer.run -------------------------- *)
\* generate_full_report line 86-88: _load_data raises FileNotFoundError or
\* ValueError (both caught by run), or gives the two item lists
load_data ==
    /\ pc = "load"
    /\ LET f == files[Today] IN
       CASE f.kind = "absent" ->
              /\ summ' = "not_found"
              /\ pc' = "render"
              /\ UNCHANGED <<s_papers, s_repos, reports>>
         [] f.kind = "corrupt" ->
              /\ summ' = "bad_json"
              /\ pc' = "render"
              /\ UNCHANGED <<s_papers, s_repos, reports>>
         [] OTHER ->
              /\ s_papers' = Get(f.data, HF)
              /\ s_repos' = Get(f.data, GH)
              /\ reports' = <<>>
              /\ pc' = IF Len(Get(f.data, HF)) + Len(Get(f.data, GH)) = 0
                       THEN "save_L2_read" ELSE "items"
              /\ UNCHANGED summ
    /\ UNCHANGED <<env_vars, files, worker_vars, calls, rollups, L1_call,
                   s_data,
                   L1_summary, out_vars, timed_out, paper_status>>

\* one pass of the loops in which a request that raised is sent once more
get_summary_retrying ==
    /\ pc = "items"
    /\ \E c \in Completions, again \in Completions :
         LET labels == item_labels(s_papers, s_repos)
             k == Len(reports) + 1
             answer == IF c = "error" THEN again ELSE c
         IN /\ reports' = Append(reports,
                                 report_entry(labels[k],
                                              completion_answer(answer)))
            /\ calls' = IF c = "error" THEN calls \o <<c, again>>
                        ELSE Append(calls, c)
            /\ pc' = IF k = Len(labels) THEN "save_L2_read" ELSE "items"
    /\ UNCHANGED <<env_vars, files, worker_vars, s_papers, s_repos, rollups,
                   L1_call, s_data, L1_summary, summ, out_vars, timed_out,
                   paper_status>>

\* generate_full_report lines 93-105: one pass of the loops, that is one
\* _get_summary_from_anthropic call and one reports.append
get_summary ==
    /\ pc = "items"
    /\ \E c \in Completions :
         LET labels == item_labels(s_papers, s_repos)
             k == Len(reports) + 1
         IN /\ reports' = Append(reports,
                                 report_entry(labels[k], completion_answer(c)))
            /\ calls' = Append(calls, c)
            /\ pc' = IF k = Len(labels) THEN "save_L2_read" ELSE "items"
    /\ UNCHANGED <<env_vars, files, worker_vars, s_papers, s_repos, rollups,
                   L1_call,
                   s_data, L1_summary, summ, out_vars, timed_out, paper_status>>

\* the read half of save_L2_summary / save_L1_summary (json.load; an
\* exception ends run in its except clauses)
save_read(here, next) ==
    /\ pc = here
    /\ IF files[Today].kind = "doc"
       THEN /\ s_data' = files[Today].data
            /\ pc' = next
            /\ UNCHANGED summ
       ELSE /\ summ' = "save_failed"
            /\ pc' = "render"
            /\ UNCHANGED s_data
    /\ UNCHANGED <<env_vars, files, worker_vars, s_papers, s_repos, reports,
                   calls, rollups, L1_call, L1_summary, out_vars, timed_out,
                   paper_status>>

\* the write half: data[name] = value, json.dump of the whole object; an
\* exception of the write ends run in its except clauses too.
\* after_ok: the position and the state of run after a write that went
\* through
save_write(here, name, value, after_ok) ==
    /\ pc = here
    /\ \E io \in WriteOutcomes :
         /\ files' =
               [files EXCEPT
                  ![Today] = write_file(@, SetSection(s_data, name, value),
                                        io)]
         /\ IF io = "ok"
            THEN pc' = after_ok.pc /\ summ' = after_ok.summ
            ELSE pc' = "render" /\ summ' = "save_failed"
    /\ UNCHANGED <<env_vars, worker_vars, s_papers, s_repos, reports, calls,
                   rollups, L1_call, s_data, L1_summary, out_vars, timed_out,
                   paper_status>>

\* a save_L2_summary that stores the list under the key of the rollup
save_L2_write_as_L1 ==
    save_write("save_L2_write", L1, reports, [pc |-> "L1", summ |-> summ])

save_L2_read == save_read("save_L2_read", "save_L2_write")
save_L2_write ==
    save_write("save_L2_write", L2, reports, [pc |-> "L1", summ |-> summ])

\* generate_L1_report: the single rollup request
generate_L1_report ==
    /\ pc = "L1"
    /\ \E c \in Completions :
         /\ L1_summary' = completion_answer(c)
         /\ L1_call' = c
    /\ rollups' = rollups + 1
    /\ pc' = "save_L1_read"
    /\ UNCHANGED <<env_vars, files, worker_vars, s_papers, s_repos, reports,
                   calls, s_data, summ, out_vars, timed_out, paper_status>>

save_L1_read == save_read("save_L1_read", "save_L1_write")
save_L1_write ==
    save_write("save_L1_write", L1, L1_summary,
               [pc |-> "render", summ |-> "done"])

(* ---------------- AIReporter._finish_report / _send_mail --------------- *)
\* whether run_report goes on to _send_mail after _finish_report ended so
send_after(o) == o \in {"true", "true_nohtml"}

finish_report ==
    /\ pc = "render"
    /\ \E tmpl \in Templates :
       LET f == files[time_stamp]
           o == finish_outcome(f, tmpl)
       IN /\ template' = tmpl
          /\ render' = o
          /\ md' = IF o \in {"true", "true_nohtml", "raise_late"}
                   THEN Written(markdown_body(f.data)) ELSE md
          /\ html' = IF o = "true" THEN Written(html_body(f.data)) ELSE html
          /\ pc' = IF send_after(o) THEN "send" ELSE "end"
          /\ result' = CASE o = "false" -> "returned"
                         [] o \in {"raise_early", "raise_late"} -> "raised"
                         [] OTHER -> result
    /\ UNCHANGED <<time_stamp, files, files0, sched, unit, worker_vars,
                   summ_vars,
                   mail,
                   timed_out, paper_status>>

\* _send_mail: the config file is the one EmailSender.__init__ has read, so
\* it is there; open(html_file_path) raises when the file does not exist;
\* mail_sender.send posts to the mail API, which can raise; nothing is caught
send_mail ==
    /\ pc = "send"
    /\ IF html.kind = "absent"
       THEN /\ mail' = "no_html"
            /\ result' = "raised"
       ELSE \E net \in {"ok", "error"} :
              /\ mail' = IF net = "ok" THEN "sent" ELSE "send_raised"
              /\ result' = IF net = "ok" THEN "returned" ELSE "raised"
    /\ pc' = "end"
    /\ UNCHANGED <<env_vars, files, worker_vars, summ_vars, md, html, render,
                   timed_out, paper_status>>

(* -------------------------------- Next -------------------------------- *)
Next ==
    \/ run_report
    \/ paper_run
    \/ submit
    \/ future_result
    \/ future_timeout
    \/ executor_shutdown
    \/ worker_fetch
    \/ worker_save_read
    \/ worker_save_write
    \/ load_data
    \/ get_summary
    \/ save_L2_read
    \/ save_L2_write
    \/ generate_L1_report
    \/ save_L1_read
    \/ save_L1_write
    \/ finish_report
    \/ send_mail

Spec == Init /\ [][Next]_vars

\* The steps of the main thread and the file steps of the worker are taken
\* when they can be.  worker_fetch is not: requests.get is called without a
\* timeout, so the trending-page fetch may never return.
main_next ==
    \/ run_report \/ paper_run \/ submit \/ future_result \/ future_timeout
    \/ executor_shutdown \/ load_data \/ get_summary \/ save_L2_read
    \/ save_L2_write \/ generate_L1_report \/ save_L1_read \/ save_L1_write
    \/ finish_report \/ send_mail

FairSpec ==
    /\ Spec
    /\ WF_vars(main_next)
    /\ WF_vars(worker_save_read)
    /\ WF_vars(worker_save_write)

(* ------------- the store's writers and reader, called alone ----------- *)
\* GithubTrendingScraper._save_to_json as one call
save_to_json(f, data, io) ==
    write_file(f, SetSection(load_or_empty(f), GH, data), io)

\* AISummarizer.save_L2_summary / save_L1_summary as one call: json.load of
\* a missing or corrupt file raises, and so does a failing write
summary_save(f, name, value, io) ==
    IF f.kind = "doc"
    THEN [raised |-> io # "ok",
          file |-> write_file(f, SetSection(f.data, name, value), io)]
    ELSE [raised |-> TRUE, file |-> f]

\* the files the methods are called on and the values they are given
StoreFiles ==
    {Absent, Corrupt, DocFile(EmptyDoc), DocFile(HalfDoc), DocFile(CompleteDoc)}
StorePapers == {parse_papers(l) : l \in PaperListings}
StoreRepos == {get_trending_repos(l) : l \in RepoListings} \ {<<>>}
StoreReports == {<<>>, OneReport}
StoreRollups == {completion_answer(c) : c \in Completions}

StoreInit ==
    /\ time_stamp = Today
    /\ template = "unread"
    /\ files \in [Dates -> StoreFiles]
    /\ \A d \in Dates \ {Today} : files[d] = Absent
    /\ files0 = files
    /\ md = NoFile
    /\ html = NoFile
    /\ unit = NoCall
    /\ sched = NoScheduler
    /\ NotStarted

\* the record of one call on today's file
StoreCall(op, value, io, raised) ==
    [op |-> op, before |-> files[Today], value |-> value, io |-> io,
     raised |-> raised]

\* HuggingFacePaperScraper._save(new_data)
call_save ==
    \E new_data \in StorePapers, io \in WriteOutcomes :
        /\ files' = [files EXCEPT ![Today] = save_papers(@, new_data, io)]
        /\ unit' = StoreCall("_save", new_data, io, FALSE)
        /\ UNCHANGED run_vars

\* GithubTrendingScraper._save_to_json(data)
call_save_to_json ==
    \E data \in StoreRepos, io \in WriteOutcomes :
        /\ files' = [files EXCEPT ![Today] = save_to_json(@, data, io)]
        /\ unit' = StoreCall("_save_to_json", data, io, FALSE)
        /\ UNCHANGED run_vars

\* save_L2_summary / save_L1_summary with self.final_report /
\* self.L1_summary = value
call_summary_save(op, name, value) ==
    \E io \in WriteOutcomes :
        LET r == summary_save(files[Today], name, value, io) IN
        /\ files' = [files EXCEPT ![Today] = r.file]
        /\ unit' = StoreCall(op, value, io, r.raised)
        /\ UNCHANGED run_vars

call_save_L2_summary ==
    \E value \in StoreReports :
        call_summary_save("save_L2_summary", L2, value)

call_save_L1_summary ==
    \E value \in StoreRollups :
        call_summary_save("save_L1_summary", L1, value)

\* AISummarizer._load_data()
call_load_data ==
    /\ unit' = StoreCall("_load_data", load_or_empty(files[Today]), "none",
                         files[Today].kind # "doc")
    /\ UNCHANGED <<files, run_vars>>

StoreNext ==
    \/ call_save
    \/ call_save_to_json
    \/ call_save_L2_summary
    \/ call_save_L1_summary
    \/ call_load_data

StoreSpec == StoreInit /\ [][StoreNext]_vars

(* ----------------------- the fetchers, called alone -------------------- *)
\* listing pages with every kind of entry
AllPaperListings == SeqsUpTo(PaperEntryKinds, MaxListing)
AllRepoListings == SeqsUpTo(RepoEntryKinds, MaxListing)

\* trending pages around the length of the slice repo_list[:10]: entries
\* with a title link, every k-th of which has a README fetch that fails
LongRepoListings ==
    {[i \in 1..n |-> [link |-> TRUE,
                      readme |-> IF i % k = 0 THEN r ELSE "ok"]] :
        n \in (TopN - 1)..(TopN + MaxListing),
        k \in 1..MaxListing,
        r \in {"ok", "no_readme", "repo_error"}}

FetchInit ==
    /\ time_stamp = Today
    /\ template = "unread"
    /\ files = [d \in Dates |-> Absent]
    /\ files0 = files
    /\ md = NoFile
    /\ html = NoFile
    /\ unit = NoCall
    /\ sched = NoScheduler
    /\ NotStarted

\* HuggingFacePaperScraper._parse_papers(html_content), called once on a
\* new scraper
call_parse_papers ==
    \E listing \in AllPaperListings :
        /\ unit = NoCall
        /\ unit' = [op |-> "_parse_papers", listing |-> listing,
                    result |-> parse_papers(listing)]
        /\ UNCHANGED <<files, run_vars>>

\* GithubTrendingScraper._get_trending_repos(), called once on a new scraper
call_get_trending_repos ==
    \E listing \in AllRepoListings \cup LongRepoListings :
        /\ unit = NoCall
        /\ unit' = [op |-> "_get_trending_repos", listing |-> listing,
                    result |-> get_trending_repos(listing)]
        /\ UNCHANGED <<files, run_vars>>

FetchNext ==
    \/ call_parse_papers
    \/ call_get_trending_repos

FetchSpec == FetchInit /\ [][FetchNext]_vars

(* ------------- generate_article_html: placing the blocks -------------- *)
\* A template text is a sequence of pieces.  The two markers are texts of
\* more than one piece that end alike, the placeholder is one piece.
START_MARKER == <<"<!-- START", "-->">>
END_MARKER == <<"<!-- END", "-->">>
PLACEHOLDER == <<"<!-- INSERT_ARTICLES_HERE -->">>
TemplatePieces ==
    {"text", "<!-- START", "<!-- END", "-->", "<!-- INSERT_ARTICLES_HERE -->"}

\* str.find: the index (from 0) of the first occurrence of sub in text,
\* or -1
find(text, sub) ==
    LET hits == {i \in 0..(Len(text) - Len(sub)) :
                    SubSeq(text, i + 1, i + Len(sub)) = sub}
    IN IF hits = {} THEN -1
       ELSE CHOOSE i \in hits : \A k \in hits : i <= k

\* text[:n] and text[n:] for n >= 0
slice_to(text, n) == SubSeq(text, 1, Min(n, Len(text)))
slice_from(text, n) == SubSeq(text, Min(n, Len(text)) + 1, Len(text))

\* str.replace(sub, new): every occurrence, left to right
RECURSIVE replace(_, _, _)
replace(text, sub, new) ==
    LET at == find(text, sub) IN
    IF at = -1 THEN text
    ELSE slice_to(text, at) \o new
         \o replace(slice_from(text, at + Len(sub)), sub, new)

\* lines 66-67
start_index(final_html) == find(final_html, START_MARKER)
end_index(final_html) == find(final_html, END_MARKER) + Len(END_MARKER)

\* line 69: if start_index != -1 and end_index != -1
markers_found(final_html) ==
    start_index(final_html) # -1 /\ end_index(final_html) # -1

\* lines 65-78: the splice between the markers, or the substitution of the
\* placeholder
insert_articles(final_html, html_insert_content) ==
    IF markers_found(final_html)
    THEN slice_to(final_html, start_index(final_html))
         \o html_insert_content
         \o slice_from(final_html, end_index(final_html))
    ELSE replace(final_html, PLACEHOLDER, html_insert_content)

\* the templates and the article blocks generate_article_html is given
TemplateTexts == SeqsUpTo(TemplatePieces, MaxTemplate)
ArticleTexts == {<<"block 1">>, <<"block 1", "block 2">>}

TemplateInit ==
    /\ time_stamp = Today
    /\ template = "unread"
    /\ files = [d \in Dates |-> Absent]
    /\ files0 = files
    /\ md = NoFile
    /\ html = NoFile
    /\ unit = NoCall
    /\ sched = NoScheduler
    /\ NotStarted

\* lines 62-78 of generate_article_html, run once on a template text
call_insert_articles ==
    \E final_html \in TemplateTexts, html_insert_content \in ArticleTexts :
        /\ unit = NoCall
        /\ unit' = [op |-> "insert_articles", template |-> final_html,
                    content |-> html_insert_content,
                    result |-> insert_articles(final_html,
                                               html_insert_content)]
        /\ UNCHANGED <<files, run_vars>>

TemplateSpec == TemplateInit /\ [][call_insert_articles]_vars

(* ------------------------- run.py: the scheduler ----------------------- *)
\* Time is counted in hours: schedule.every().day, and timeout=7200 of
\* subprocess.run.
DayHours == 24
ChildTimeoutHours == 2

\* sched.at       "loop": between two schedule.run_pending() calls;
\*                "subprocess": inside subprocess.run(...) of run_script
\* sched.alive    child processes (python main.py) that are alive
\* sched.waited   hours subprocess.run has been waiting for the child
\* sched.until    hours until the job's next_run
\* sched.runs     triggers so far
\* sched.last     how the last child ended
SchedInit ==
    /\ time_stamp = Today
    /\ template = "unread"
    /\ files = [d \in Dates |-> Absent]
    /\ files0 = files
    /\ md = NoFile
    /\ html = NoFile
    /\ unit = NoCall
    /\ \E u \in 1..DayHours :
         sched = [at |-> "loop", alive |-> 0, waited |-> 0, until |-> u,
                  runs |-> 0, last |-> "none"]
    /\ NotStarted

\* the job's next_run after a run that took `waited` hours from its trigger
next_run(waited) == DayHours - waited

\* a trigger that starts the child and does not wait for it (Popen)
run_script_starts_detached ==
    /\ sched.at = "loop"
    /\ sched.until = 0
    /\ sched.runs < MaxRuns
    /\ sched' = [sched EXCEPT !.alive = @ + 1, !.runs = @ + 1,
                              !.until = next_run(0)]
    /\ UNCHANGED <<files, unit, run_vars_but_sched>>

\* line 91: the loop sleeps while the job is not due
sleep_tick ==
    /\ sched.at = "loop"
    /\ sched.until > 0
    /\ sched' = [sched EXCEPT !.until = @ - 1]
    /\ UNCHANGED <<files, unit, run_vars_but_sched>>

\* line 82 and lines 38-48: run_pending calls run_script, which starts the
\* child and waits in subprocess.run
run_script_starts ==
    /\ sched.at = "loop"
    /\ sched.until = 0
    /\ sched.runs < MaxRuns
    /\ sched' = [sched EXCEPT !.at = "subprocess", !.alive = @ + 1,
                              !.waited = 0, !.runs = @ + 1]
    /\ UNCHANGED <<files, unit, run_vars_but_sched>>

\* an hour passes with the child still running
child_runs ==
    /\ sched.at = "subprocess"
    /\ sched.waited < ChildTimeoutHours
    /\ sched' = [sched EXCEPT !.waited = @ + 1]
    /\ UNCHANGED <<files, unit, run_vars_but_sched>>

\* the child exits (with any return code); subprocess.run returns or raises
\* CalledProcessError, run_script returns, the job is scheduled again
child_exits ==
    /\ sched.at = "subprocess"
    /\ sched' = [sched EXCEPT !.at = "loop", !.alive = @ - 1,
                              !.until = next_run(sched.waited),
                              !.last = "exited"]
    /\ UNCHANGED <<files, unit, run_vars_but_sched>>

\* timeout=7200: subprocess.run kills the child, waits for it and raises
\* TimeoutExpired, which run_script catches (line 61)
child_killed ==
    /\ sched.at = "subprocess"
    /\ sched.waited = ChildTimeoutHours
    /\ sched' = [sched EXCEPT !.at = "loop", !.alive = @ - 1,
                              !.until = next_run(sched.waited),
                              !.last = "killed"]
    /\ UNCHANGED <<files, unit, run_vars_but_sched>>

SchedNext ==
    \/ sleep_tick
    \/ run_script_starts
    \/ child_runs
    \/ child_exits
    \/ child_killed

SchedSpec == SchedInit /\ [][SchedNext]_vars

(* ======================= properties of the program ==================== *)
\* the main thread is inside _crawling
CrawlPcs == {"papers", "submit", "wait", "shutdown"}
\* the main thread is inside ai_summarizer.run
SummPcs == {"load", "items", "save_L2_read", "save_L2_write", "L1",
            "save_L1_read", "save_L1_write"}
\* generate_full_report has returned
ReportsDone == pc \in {"save_L2_read", "save_L2_write", "L1", "save_L1_read",
                       "save_L1_write"} \/ summ \in {"save_failed", "done"}
\* _load_data has returned the document
Loaded == pc \in SummPcs \ {"load"} \/ summ \in {"save_failed", "done"}

TodayDoc == files[Today].data

\* this step writes section name with value v into today's document and
\* keeps every section the document had before the step
FrameWrite(name, v) ==
    /\ files'[Today].kind = "doc"
    /\ DOMAIN files'[Today].data = DOMAIN files[Today].data \cup {name}
    /\ files'[Today].data[name] = v
    /\ \A k \in DOMAIN files[Today].data \ {name} :
          files'[Today].data[k] = files[Today].data[k]

\* C1: every section write onto a readable document (the paper scraper's
\* huggingface_papers, the worker's gh_trendings, the summarizer's
\* 'L2 Summary' and 'L1 Summary') leaves the written section equal to the
\* written value and every other section present before it unchanged.
C1_SectionWriteFrame ==
    [][files[Today].kind = "doc" =>
         /\ (pc = "papers" /\ paper_status' = "saved") =>
               \E listing \in PaperListings :
                   FrameWrite(HF, parse_papers(listing))
         /\ (wpc = "save_write" /\ gh_status' = "saved") =>
               FrameWrite(GH, w_repos)
         /\ (pc = "save_L2_write" /\ pc' = "L1") => FrameWrite(L2, reports)
         /\ (pc = "save_L1_write" /\ summ' = "done") =>
               FrameWrite(L1, L1_summary)]_vars

\* C1 witness: all four sections were written one after the other and the
\* document holds all four
C1_Witness ==
    /\ summ = "done"
    /\ paper_status = "saved"
    /\ gh_status = "saved"
    /\ files[Today].kind = "doc"
    /\ DOMAIN TodayDoc = Sections
    /\ TodayDoc[GH] = w_repos
    /\ TodayDoc[L2] = reports

\* C2: when the repository fetch timed out and the paper fetch saved its
\* papers, the document the summarizer loads and the document the run
\* leaves behind hold huggingface_papers and no repositories.
C2_TimeoutMeansNoRepos ==
    (timed_out /\ paper_status = "saved") =>
        /\ Loaded => (s_papers # <<>> /\ s_repos = <<>>)
        /\ pc = "end" =>
              (HF \in DOMAIN TodayDoc /\ Get(TodayDoc, GH) = <<>>)

\* C3: once the timeout has fired, the run reaches the summarization stage
\* whatever the worker does.
C3_TimeoutIsHardDeadline == timed_out ~> (pc \notin CrawlPcs)

\* C4: when generate_full_report has returned, reports holds one entry per
\* loaded item, entry i labelled with the i-th paper and entry
\* Len(papers)+j with the j-th repo, and the entry of a failed request
\* carries the sentinel text.
C4_ReportPerItem ==
    ReportsDone =>
        /\ Len(reports) = Len(s_papers) + Len(s_repos)
        /\ Len(calls) = Len(reports)
        /\ \A i \in 1..Len(s_papers) : reports[i][1] = s_papers[i].Title
        /\ \A j \in 1..Len(s_repos) :
              reports[Len(s_papers) + j][1] = s_repos[j].url
        /\ \A i \in 1..Len(reports) :
              calls[i] \in {"error", "no_choices"} => reports[i][2] = SENTINEL

\* C4 witness: papers and a repo were loaded and every request failed
C4_Witness ==
    /\ pc = "L1"
    /\ Len(s_papers) = MaxPapers
    /\ Len(s_repos) >= 1
    /\ \A i \in 1..Len(calls) : calls[i] = "error"
    /\ Len(reports) = MaxPapers + Len(s_repos)

\* the fetcher wrote nothing into section name of today's file: the section
\* is there only as the store held it when the run began
Untouched(name) ==
    name \in DOMAIN TodayDoc =>
        /\ files0[Today].kind = "doc"
        /\ name \in DOMAIN files0[Today].data
        /\ TodayDoc[name] = files0[Today].data[name]

\* C5: an exception of either fetcher is caught: run_report is not ended by
\* it, the failed fetcher's section is not written, the other fetcher runs
\* and its saved section is in the document (as long as no later write of
\* the summarizer failed), the main thread is not stuck, and the summarizer
\* is started before the render.
C5_FetcherFailureIsolated ==
    /\ paper_status = "raised" =>
          /\ pc # "papers"
          /\ pc \in CrawlPcs \cup SummPcs => result = "running"
          /\ Untouched(HF)
          /\ pc \notin CrawlPcs => gh_status # "none"
          /\ (gh_status = "saved" /\ summ # "save_failed") =>
                (GH \in DOMAIN TodayDoc /\ TodayDoc[GH] = w_repos)
          /\ pc \in {"render", "send", "end"} => summ # "none"
    /\ gh_status = "raised" =>
          /\ pc \in CrawlPcs \cup SummPcs => result = "running"
          /\ Untouched(GH)
          /\ (paper_status = "saved" /\ summ # "save_failed") =>
                (HF \in DOMAIN TodayDoc /\ (Loaded => s_papers = TodayDoc[HF]))
          /\ pc \in {"wait", "shutdown"} =>
                ENABLED (future_result \/ executor_shutdown)
          /\ pc \in {"render", "send", "end"} => summ # "none"

\* C5 witness: the paper scraper raised, the repository scraper saved its
\* section, and the summarizer has finished
C5_Witness ==
    /\ paper_status = "raised"
    /\ gh_status = "saved"
    /\ summ = "done"
    /\ GH \in DOMAIN TodayDoc

\* C6: a run that creates its document and crawls ends with the report
\* rendered and the delivery step reached, whatever the fetchers returned
\* (stated for a run keyed by today's date with the template in place).
C6_AlwaysSendable ==
    (pc = "end" /\ paper_status # "none" /\ time_stamp = Today
        /\ template = "ok") =>
        (render = "true" /\ mail # "none")

\* C7: rendering a document without 'L1 Summary' raises, and leaves the
\* Markdown file and the HTML file as they were.
C7_NoL1NoWrite ==
    [][(pc = "render" /\ files[time_stamp].kind = "doc"
           /\ L1 \notin DOMAIN files[time_stamp].data) =>
         (render' = "raise_early" /\ result' = "raised"
            /\ md' = md /\ html' = html)]_vars

\* C7 witness: a render of a document without the rollup has raised, with
\* outputs of an earlier run on disk
C7_Witness ==
    /\ render = "raise_early"
    /\ files[time_stamp].kind = "doc"
    /\ L1 \notin DOMAIN files[time_stamp].data
    /\ md = StaleFile
    /\ html = StaleFile

\* C8: rendering a document that has 'L1 Summary' but no huggingface_papers
\* raises before any output is written (stated with the template in place).
C8_NoPapersFailsFast ==
    (render # "none" /\ template = "ok" /\ files[time_stamp].kind = "doc"
        /\ L1 \in DOMAIN files[time_stamp].data
        /\ HF \notin DOMAIN files[time_stamp].data) =>
        (render \in {"raise_early", "raise_late"}
            /\ md.kind # "written" /\ html.kind # "written")

\* a run keyed by today's date that found no document and created it
FreshRun == time_stamp = Today /\ files0[Today] = Absent

\* C9: _send_mail is started only after a render that wrote its outputs
\* (stated for a run that created its document).
C9_SendOnlyAfterRender ==
    (FreshRun /\ (pc = "send" \/ mail # "none")) =>
        (render = "true" /\ md.kind = "written" /\ html.kind = "written")

\* C10: run_report never ends with an exception (stated for a run that
\* created its document).
C10_NothingEscapes == FreshRun => result # "raised"

\* C11: reading a document whose file is missing or corrupt gives the empty
\* document and raises nothing, for the summarizer's load (_load_data) and
\* for the renderer's load (_finish_report): the summarizer goes on with
\* the empty item lists, and the render does not end in an exception of the
\* read.
C11_ReadGivesEmptyDocument ==
    /\ summ \notin {"not_found", "bad_json"}
    /\ (render # "none" /\ files[time_stamp].kind \in {"absent", "corrupt"}) =>
          render \notin {"false", "raise_early"}

\* the section a writer sets
WrittenSection(op) ==
    CASE op = "_save" -> HF
      [] op = "_save_to_json" -> GH
      [] op = "save_L2_summary" -> L2
      [] op = "save_L1_summary" -> L1

\* C12: each of the four section writers, called on a corrupt file with a
\* write that goes through, does not raise and leaves a document that holds
\* the written section and nothing else.
C12_WriteOverCorruptFile ==
    (/\ unit.op \in {"_save", "_save_to_json", "save_L2_summary",
                     "save_L1_summary"}
     /\ unit.before.kind = "corrupt"
     /\ unit.io = "ok"
     /\ ~(unit.op = "_save" /\ unit.value = <<>>)) =>
        /\ ~unit.raised
        /\ files[Today] =
             DocFile(SetSection(EmptyDoc, WrittenSection(unit.op), unit.value))

\* C13: for a listing of n well-formed paper entries, _parse_papers returns
\* n items in listing order; the items whose lookup failed (exception or no
\* result) have Summary and PDF_Link "N/A", the others the looked-up values.
C13_FailedLookupKeepsPaper ==
    (/\ unit.op = "_parse_papers"
     /\ \A i \in 1..Len(unit.listing) : unit.listing[i].wellformed) =>
        /\ Len(unit.result) = Len(unit.listing)
        /\ \A i \in 1..Len(unit.listing) :
              /\ unit.result[i].Title = <<"paper", i>>
              /\ IF unit.listing[i].lookup = "found"
                 THEN /\ unit.result[i].Summary = "abstract"
                      /\ unit.result[i].PDF_Link = "pdf"
                 ELSE /\ unit.result[i].Summary = NA
                      /\ unit.result[i].PDF_Link = NA

\* C13 witness: three listed papers, the lookup of the second one raised,
\* and three items came back
C13_Witness ==
    /\ unit.op = "_parse_papers"
    /\ Len(unit.listing) = 3
    /\ \A i \in 1..3 : unit.listing[i].wellformed
    /\ unit.listing[1].lookup = "found"
    /\ unit.listing[2].lookup = "exception"
    /\ unit.listing[3].lookup = "found"
    /\ Len(unit.result) = 3
    /\ unit.result[2].Summary = NA

\* the main thread is past ai_summarizer.run
AfterSummPcs == {"render", "send", "end"}

\* C14: when the rollup request raises, generate_L1_report sets the
\* sentinel and run goes on to save_L1_summary; once that write has gone
\* through, the document's 'L1 Summary' is the sentinel, its 'L2 Summary'
\* is still the list save_L2_summary stored, and the main thread is at the
\* render step, which can be taken.
C14_RollupFailureStoresSentinel ==
    L1_call = "error" =>
        /\ L1_summary = SENTINEL
        /\ pc \in {"save_L1_read", "save_L1_write"} \cup AfterSummPcs
        /\ summ \notin {"not_found", "bad_json"}
        /\ summ = "done" =>
              /\ files[Today].kind = "doc"
              /\ {L1, L2} \subseteq DOMAIN TodayDoc
              /\ TodayDoc[L1] = SENTINEL
              /\ TodayDoc[L2] = reports
              /\ pc \in AfterSummPcs
        /\ pc = "render" => ENABLED finish_report

\* C14 witness: the rollup request raised after two item summaries were
\* stored, and the main thread is at the render step with the sentinel in
\* the document
C14_Witness ==
    /\ L1_call = "error"
    /\ summ = "done"
    /\ pc = "render"
    /\ TodayDoc[L1] = SENTINEL
    /\ Len(TodayDoc[L2]) = 2

\* C15: no step of AISummarizer.run ends run_report with an exception, a
\* readable document stays a readable document over every step of run, and
\* a step that fails leaves the file as it was before the step.
C15_SummarizerLeavesReadableDocument ==
    [][(pc \in SummPcs) =>
         (/\ result' # "raised"
          /\ files[Today].kind = "doc" => files'[Today].kind = "doc"
          /\ summ' \in {"not_found", "bad_json", "save_failed"} =>
                files' = files)]_vars

\* the number of items of a section of document d, 0 when it is absent
Count(d, name) == Len(Get(d, name))

\* C16: in every document of the store that has an 'L2 Summary', the
\* summary list is as long as the document's huggingface_papers and
\* gh_trendings together.
C16_L2LengthMatchesItems ==
    \A d \in Dates :
        (files[d].kind = "doc" /\ L2 \in DOMAIN files[d].data) =>
            Len(files[d].data[L2]) =
                Count(files[d].data, HF) + Count(files[d].data, GH)

\* C17: the only file of the store a run changes is the document keyed by
\* the reporter's time_stamp, the one run_report creates and renders; no
\* step of the fetchers or of the summarizer changes the file of another
\* date.
C17_OneDocumentPerRun ==
    [][\A d \in Dates \ {time_stamp} : files'[d] = files[d]]_vars

\* the document _finish_report and generate_article_html read
ReportDoc == files[time_stamp].data

FirstEntriesKept(listing, repos) ==
    /\ Len(repos) = Min(Len(listing), TopN)
    /\ \A j \in 1..Len(repos) :
          /\ repos[j].url = <<"repo", j>>
          /\ repos[j].readme_summary # ""
          /\ repos[j].readme_summary =
                CASE listing[j].readme = "ok" -> "readme text"
                  [] listing[j].readme = "no_readme" -> "README not found."
                  [] listing[j].readme = "repo_error" ->
                        "An error occurred while fetching README"

C20_MalformedCompletionGivesSentinel ==
    /\ \A i \in 1..Len(calls) :
          calls[i] \in {"no_choices", "null_content"} =>
              reports[i][2] = SENTINEL
    /\ L1_call \in {"no_choices", "null_content"} =>
          /\ L1_summary = SENTINEL
          /\ summ = "done" => TodayDoc[L1] = SENTINEL

\* the worker thread is running gh_scraper.run
WorkerPcs == {"fetch", "save_read", "save_write"}

\* C21: while the worker runs (its fetch and its read-merge-write of
\* gh_trendings) the main thread is inside the with block of _crawling,
\* waiting: the paper scraper's write is over, and the summarizer's load
\* and writes and the renderer's read have not begun; this also after the
\* timeout of future.result.
C21_NoConcurrentAccess ==
    /\ wpc \in WorkerPcs => pc \in {"wait", "shutdown"}
    /\ pc \in SummPcs \cup AfterSummPcs => wpc \in {"idle", "done"}
    /\ pc \in {"start", "papers", "submit"} => wpc = "idle"

\* C21 witness: the timeout fired, the worker has written gh_trendings all
\* the same, and only now the summarizer is about to load
C21_Witness ==
    /\ timed_out
    /\ gh_status = "saved"
    /\ wpc = "done"
    /\ pc = "load"

\* run_report found no file of time_stamp, created the document and crawls
Crawls == ~exists(files0[time_stamp])

\* C22: in a run that crawls the stages follow one another: the document
\* exists before the paper fetch; the worker is started only when the paper
\* scraper has ended (saved, empty, no page or raised); the summarizer is
\* started only when the worker has ended; the render only when the
\* summarizer has returned.
C22_StageOrder ==
    /\ pc \in CrawlPcs => (Crawls /\ exists(files[time_stamp]))
    /\ wpc # "idle" => (paper_status # "none" /\ pc \notin {"start", "papers"})
    /\ (pc \in SummPcs \/ summ # "none") =>
          (wpc = "done" /\ gh_status # "none" /\ paper_status # "none")
    /\ (Crawls /\ render # "none") => (summ # "none" /\ pc \notin SummPcs)

\* C22 witness: a crawling run in which both fetchers saved, the
\* summarizer finished and the render was done
C22_Witness ==
    /\ Crawls
    /\ paper_status = "saved"
    /\ gh_status = "saved"
    /\ summ = "done"
    /\ render = "true"

\* this step replaces today's file by the document it read with section
\* name set to v, and changes no other file
MergeWrite(name, v) ==
    /\ v # <<>>
    /\ files'[Today] = DocFile(SetSection(load_or_empty(files[Today]), name, v))
    /\ \A d \in Dates \ {Today} : files'[d] = files[d]

\* how a fetch stage ends when it has no items to store
NothingFetched == {"raised", "no_page", "empty"}

\* C23: during the crawl the store changes only in the one write of the
\* paper stage and the one write of the repository stage; a stage that
\* ends with a saved list has set exactly its own section on the document
\* it read; a stage that fetched nothing leaves the store as it was.
C23_OneWritePerFetchStage ==
    [][(pc \in CrawlPcs) =>
         (/\ files' # files =>
                \/ /\ pc = "papers"
                   /\ paper_status = "none"
                   /\ paper_status' \in {"saved", "save_failed"}
                \/ /\ wpc = "save_write"
                   /\ gh_status = "none"
                   /\ gh_status' \in {"saved", "save_failed"}
          /\ (paper_status = "none" /\ paper_status' = "saved") =>
                \E listing \in PaperListings :
                    MergeWrite(HF, parse_papers(listing))
          /\ (gh_status = "none" /\ gh_status' = "saved") =>
                MergeWrite(GH, w_repos)
          /\ (paper_status = "none" /\ paper_status' \in NothingFetched) =>
                files' = files
          /\ (gh_status = "none" /\ gh_status' \in NothingFetched) =>
                files' = files)]_vars

\* C23 witness: the paper stage found an empty listing and wrote nothing,
\* the repository stage saved its list: the document holds gh_trendings
\* and no other section
C23_Witness ==
    /\ FreshRun
    /\ paper_status = "empty"
    /\ gh_status = "saved"
    /\ pc = "load"
    /\ DOMAIN TodayDoc = {GH}

\* the items of the document the summarizer loaded
ItemCount == Len(s_papers) + Len(s_repos)

\* C24: a summarizer run over p papers and r repos sends one item request
\* per item and never more, and at most one rollup request; the rollup
\* request is sent when all p + r item requests have returned and
\* 'L2 Summary' is in the document; a run none of whose writes failed ends
\* with exactly p + r item requests and one rollup request.
C24_RequestCounts ==
    /\ [](/\ Len(calls) <= ItemCount
          /\ Len(calls) = Len(reports)
          /\ rollups \in {0, 1}
          /\ rollups = 1 => Len(calls) = ItemCount
          /\ summ = "done" => (Len(calls) = ItemCount /\ rollups = 1))
    /\ [][rollups' # rollups =>
            /\ rollups = 0
            /\ rollups' = 1
            /\ Len(calls) = ItemCount
            /\ calls' = calls
            /\ files[Today].kind = "doc"
            /\ L2 \in DOMAIN TodayDoc
            /\ TodayDoc[L2] = reports]_vars

\* C24 witness: a finished run over two papers and one repository: three
\* item requests and one rollup request
C24_Witness ==
    /\ summ = "done"
    /\ Len(s_papers) = 2
    /\ Len(s_repos) = 1
    /\ Len(calls) = 3
    /\ rollups = 1

\* both markers occur in the template text
BothMarkers(text) ==
    find(text, START_MARKER) # -1 /\ find(text, END_MARKER) # -1

\* C25: for a template without the complete marker pair the result is the
\* template with the placeholder replaced by the article blocks and
\* nothing else changed; the splice between the markers is used only when
\* both markers are there.
C25_PlaceholderFallback ==
    (unit.op = "insert_articles" /\ ~BothMarkers(unit.template)) =>
        unit.result = replace(unit.template, PLACEHOLDER, unit.content)

\* C26: the scheduler never has two pipeline runs in flight: at most one
\* child process is alive, none is alive while the loop evaluates triggers,
\* a trigger starts exactly one child and only when none is alive,
\* subprocess.run waits at most the timeout, and it returns to the loop only
\* once the child has exited or has been killed.
C26_OneRunInFlight ==
    /\ [](/\ sched.alive <= 1
          /\ (sched.at = "loop") => (sched.alive = 0)
          /\ (sched.at = "subprocess") =>
                 (sched.alive = 1 /\ sched.waited <= ChildTimeoutHours))
    /\ [][(sched'.runs > sched.runs) =>
              (/\ sched.alive = 0
               /\ sched'.alive = 1
               /\ sched'.runs = sched.runs + 1
               /\ sched'.at = "subprocess")]_vars
    /\ [][(sched.at = "subprocess" /\ sched'.at = "loop") =>
              (sched'.alive = 0 /\ sched'.last \in {"exited", "killed"})]_vars

\* a second run is in flight after the first one was killed by the timeout
C26_Witness ==
    /\ sched.runs = 2
    /\ sched.at = "subprocess"
    /\ sched.alive = 1
    /\ sched.last = "killed"

\* C27: a run that finds the document of its date (readable or not) leaves
\* the whole store as it was, starts no fetcher, no worker and no
\* summarizer, sends no request, and goes from the start to the render and,
\* only after a render that returned True, to the delivery; the crawl and
\* the summarization are entered only by the step of run_report that has
\* created the empty document of the run's date.
C27_ExistingDocumentOnlyRenders ==
    /\ [](exists(files0[time_stamp]) =>
            /\ files = files0
            /\ pc \in {"start", "render", "send", "end"}
            /\ paper_status = "none"
            /\ gh_status = "none"
            /\ wpc = "idle"
            /\ summ = "none"
            /\ calls = <<>>
            /\ rollups = 0
            /\ (pc = "send" \/ mail # "none") => send_after(render))
    /\ []((\/ pc \in CrawlPcs \cup SummPcs
           \/ paper_status # "none"
           \/ gh_status # "none"
           \/ wpc # "idle"
           \/ summ # "none"
           \/ calls # <<>>) => ~exists(files0[time_stamp]))
    /\ [][(pc = "start" /\ pc' \in CrawlPcs \cup SummPcs) =>
              (/\ ~exists(files[time_stamp])
               /\ files'[time_stamp] = DocFile(EmptyDoc)
               /\ pc' = "papers")]_vars

\* the complete document that was there has been rendered and delivered,
\* with nothing fetched and nothing summarized
C27_Witness ==
    /\ exists(files0[time_stamp])
    /\ files = files0
    /\ render = "true"
    /\ mail = "sent"
    /\ paper_status = "none"
    /\ summ = "none"

\* the file of date d held no summary when the run started
NoSummaries0(d) ==
    /\ L2 \notin DOMAIN files0[d].data
    /\ L1 \notin DOMAIN files0[d].data

\* the main thread is between the write of save_L2_summary and the end of
\* save_L1_summary
AfterL2Pcs == {"L1", "save_L1_read", "save_L1_write"}

\* C28: in a document that held no summary when the run started,
\* 'L1 Summary' is present only if 'L2 Summary' is present; the step that
\* adds 'L1 Summary' finds 'L2 Summary' already stored and keeps it; and a
\* run that fails after the write of 'L2 Summary' leaves a document without
\* 'L1 Summary', which, as long as the file is readable, still holds the
\* stored 'L2 Summary'.
C28_L1OnlyWithL2 ==
    /\ [](\A d \in Dates :
            (NoSummaries0(d) /\ L1 \in DOMAIN files[d].data) =>
                L2 \in DOMAIN files[d].data)
    /\ [][\A d \in Dates :
            (/\ NoSummaries0(d)
             /\ L1 \notin DOMAIN files[d].data
             /\ L1 \in DOMAIN files'[d].data) =>
                (/\ pc = "save_L1_write"
                 /\ d = Today
                 /\ L2 \in DOMAIN files[d].data
                 /\ files'[d].data[L2] = files[d].data[L2])]_vars
    /\ [][(/\ NoSummaries0(Today)
           /\ pc \in AfterL2Pcs
           /\ summ' = "save_failed") =>
              (/\ L1 \notin DOMAIN files'[Today].data
               /\ files'[Today].kind = "doc" =>
                      (/\ L2 \in DOMAIN files'[Today].data
                       /\ files'[Today].data[L2] = reports))]_vars

\* the write of 'L1 Summary' has failed at open: the document holds
\* 'L2 Summary' and no 'L1 Summary'
C28_Witness ==
    /\ NoSummaries0(Today)
    /\ summ = "save_failed"
    /\ files[Today].kind = "doc"
    /\ L2 \in DOMAIN TodayDoc
    /\ L1 \notin DOMAIN TodayDoc
    /\ rollups = 1

====
